---- MODULE Spec2Model ----
(***************************************************************************)
(* Favorite-products synchronizer of shopify-fav-app: the ADD handler      *)
(* (update-metafields action), the REMOVE handler (remove-metafields       *)
(* action) and the READ-ALL loader (get-metafields), run against a remote  *)
(* field store that answers one call at a time.  The first action of       *)
(* api.update-metafields-temp.jsx (lines 34-100) only logs its input and   *)
(* calls no store; the ADD handler is the action of lines 139-426.         *)
(*                                                                         *)
(* A string is a sequence of characters; the characters that matter to the *)
(* code are the newline "NL", the space "SP", the double quote "DQ" and    *)
(* the single quote "SQ"; every other character is a letter.               *)
(***************************************************************************)
EXTENDS Integers, Sequences, FiniteSets, TLC

\* ------------------------------------------------------------------ bounds
\* Requests the model runs (they may interleave).
NumRequests == 2
\* Lines of a field value that exists before the first request.
MaxLines == 3
\* Entries of the store's top-level error list.
MaxErrors == 2
\* Entries of the metafields array of an ADD request.
MaxEntries == 2
\* Characters of a raw field value that exists before the first request.
MaxRawLen == 5
\* Runs of the app loader (they may interleave).
NumRuns == 2
\* Metafield definitions the namespace holds before the first run.
MaxDefinitions == 3

\* --------------------------------------------------------------- characters
Quotes == {"DQ", "SQ"}
Whitespace == {"SP", "NL"}

None == "None"

\* ------------------------------------------------------------------- codec
RECURSIVE SplitFrom(_, _, _)
SplitFrom(s, i, cur) ==
  IF i > Len(s) THEN <<cur>>
  ELSE IF s[i] = "NL" THEN <<cur>> \o SplitFrom(s, i + 1, <<>>)
  ELSE SplitFrom(s, i + 1, Append(cur, s[i]))

\* String.prototype.split("\n")
Split(s) == SplitFrom(s, 1, <<>>)

RECURSIVE Join(_)
\* Array.prototype.join("\n")
Join(ls) ==
  IF Len(ls) = 0 THEN <<>>
  ELSE IF Len(ls) = 1 THEN ls[1]
  ELSE ls[1] \o <<"NL">> \o Join(Tail(ls))

\* String.prototype.trim()
Trim(s) ==
  LET keep == {i \in 1..Len(s) : s[i] \notin Whitespace}
  IN IF keep = {} THEN <<>>
     ELSE LET lo == CHOOSE i \in keep : \A j \in keep : i <= j
              hi == CHOOSE i \in keep : \A j \in keep : i >= j
          IN SubSeq(s, lo, hi)

\* s.replace(/^["']|["']$/g, ''): a quote at the start is dropped, and a quote
\* at the end of what is left is dropped, each on its own.
StripQuotes(s) ==
  LET s1 == IF Len(s) > 0 /\ s[1] \in Quotes THEN Tail(s) ELSE s
  IN IF Len(s1) > 0 /\ s1[Len(s1)] \in Quotes THEN SubSeq(s1, 1, Len(s1) - 1) ELSE s1

\* (v) => v.trim().replace(/^["']|["']$/g, '')
CleanLine(v) == StripQuotes(Trim(v))

\* Array.prototype.filter(Boolean) on an array of strings
FilterBoolean(ls) == SelectSeq(ls, LAMBDA v : v # <<>>)

MapClean(ls) == [i \in 1..Len(ls) |-> CleanLine(ls[i])]

\* value.split("\n").map(trim, strip).filter(Boolean)
ParseFavorites(value) == FilterBoolean(MapClean(Split(value)))

Range(f) == {f[i] : i \in DOMAIN f}

RECURSIVE DedupeFrom(_, _)
DedupeFrom(ls, acc) ==
  IF Len(ls) = 0 THEN acc
  ELSE DedupeFrom(Tail(ls), IF ls[1] \in Range(acc) THEN acc ELSE Append(acc, ls[1]))

\* Array.from(new Set(list)): first occurrences, in order
ArrayFromSet(ls) == DedupeFrom(ls, <<>>)

\* ----------------------------------------------------------------- domains
Requests == 1..NumRequests
\* Owners the remote store holds a customer record for.
Customers == {"c1"}
\* customerId values a request may carry ("c0" names no customer of the store).
CustomerIds == {"c1", "c0"}
Namespaces == {"favorite", "favorites"}
FavoritesKey == "favorite_products"

\* Lines that a field value existing before the first request is made of.
InitLines == { <<"a">>, <<"b">>, <<"DQ", "c", "DQ">> }

SeqsUpTo(S, n) == UNION {[1..k -> S] : k \in 1..n}

\* Field values that exist before the first request.
StoredValues == {Join(ls) : ls \in SeqsUpTo(InitLines, MaxLines)}

\* productHandle values of a REMOVE request.
ProductHandles == { <<"a">>, <<"b">>, <<"A">> }

\* The value of an entry: a string, an array of strings, a value of another
\* type (s is what String(value) gives), or no value.
StringValue(s) == [type |-> "string", s |-> s, a |-> <<>>]
ArrayValue(a) == [type |-> "array", s |-> <<>>, a |-> a]
OtherValue(s) == [type |-> "other", s |-> s, a |-> <<>>]
NoValue == [type |-> "none", s |-> <<>>, a |-> <<>>]

\* Entries of the metafields array of an ADD request.
MetafieldEntries ==
  { [key |-> FavoritesKey, namespace |-> None, value |-> StringValue(<<"b">>)],
    [key |-> FavoritesKey, namespace |-> "favorite",
       value |-> StringValue(<<"DQ", "b", "NL", "c", "DQ">>)],
    [key |-> FavoritesKey, namespace |-> None, value |-> StringValue(<<"SP", "NL", "SP">>)],
    [key |-> FavoritesKey, namespace |-> None, value |-> StringValue(<<>>)],
    [key |-> FavoritesKey, namespace |-> None,
       value |-> ArrayValue(<< <<"b">>, <<"SP">>, <<"SQ", "c", "SQ">> >>)],
    [key |-> "other", namespace |-> "favorite", value |-> StringValue(<<"c">>)] }

\* metafields of an ADD request: an array of entries, the empty array, or
\* something that is no array.
MetafieldsInputs ==
  {[isArray |-> TRUE, items |-> m] : m \in SeqsUpTo(MetafieldEntries, MaxEntries) \cup {<<>>}}
    \cup {[isArray |-> FALSE, items |-> <<>>]}

\* Entries of the store's top-level error list (extensions.code, and whether
\* the message holds the words "protected customer data").
ErrorEntries ==
  { [code |-> "ACCESS_DENIED", message |-> "protected customer data"],
    [code |-> "ACCESS_DENIED", message |-> "access denied"],
    [code |-> "THROTTLED", message |-> "throttled"] }
ErrorLists == SeqsUpTo(ErrorEntries, MaxErrors)

\* What a response with a non-OK status carries as its error list (never read).
NotOkErrors == {<<>>} \cup {<<e>> : e \in ErrorEntries}

\* Mutation-level user errors of the store.
UserError == << [field |-> "value", message |-> "is invalid"] >>
UserErrorLists ==
  { UserError,
    << [field |-> "value", message |-> "is invalid"],
       [field |-> "ownerId", message |-> "not found"] >> }

\* The inputs requests are drawn from when one request runs alone.
Wide ==
  [bodies |-> BOOLEAN, customerIds |-> {"c1", None}, queryCustomerIds |-> CustomerIds \cup {None},
   shops |-> {"s1", None}, sessions |-> {"found", "none", "throws"},
   metafields |-> MetafieldsInputs, productHandles |-> ProductHandles \cup {<<>>},
   values |-> StoredValues, errors |-> ErrorLists, userErrors |-> UserErrorLists]

\* The inputs requests are drawn from when several requests interleave: well-formed
\* requests of one customer.
Narrow ==
  [bodies |-> {TRUE}, customerIds |-> {"c1"}, queryCustomerIds |-> {"c1"},
   shops |-> {"s1"}, sessions |-> {"found"},
   metafields |->
     {[isArray |-> TRUE, items |-> <<e>>] : e \in
        { [key |-> FavoritesKey, namespace |-> None, value |-> StringValue(<<"b">>)],
          [key |-> FavoritesKey, namespace |-> "favorite", value |-> StringValue(<<"b">>)],
          [key |-> FavoritesKey, namespace |-> None, value |-> StringValue(<<"SP">>)] }},
   productHandles |-> {<<"a">>, <<"b">>},
   values |-> {<<"a">>, <<"a", "NL", "b">>},
   errors |-> {<<e>> : e \in ErrorEntries}, userErrors |-> {UserError}]

\* Raw field values: every string of a letter, whitespace, newlines and quotes,
\* well-formed or not.
RawChars == {"a", "SP", "NL", "DQ", "SQ"}
RawValues == UNION {[1..k -> RawChars] : k \in 1..MaxRawLen}

\* The inputs of one well-formed request that meets any raw field value.
Raw ==
  [Narrow EXCEPT
     !.metafields =
       {[isArray |-> TRUE, items |-> <<e>>] : e \in
          { [key |-> FavoritesKey, namespace |-> "favorite", value |-> StringValue(<<"a">>)],
            [key |-> FavoritesKey, namespace |-> None, value |-> StringValue(<<"SP">>)] }},
     !.productHandles = {<<"a">>},
     !.values = RawValues]

\* A metafield of the store: absent, or present with an id and a value.
NoField == [present |-> FALSE, id |-> 0, value |-> <<>>]
Field(id, value) == [present |-> TRUE, id |-> id, value |-> value]

\* ------------------------------------------------------------------- state
VARIABLES
  store,       \* remote field store: <<owner, namespace>> -> metafield
  nextId,      \* id the store gives to the next metafield it creates
  req,         \* the requests: inputs, position in the handler, locals, response
  lastWriter,  \* per field, the request whose mutation the store applied last (0: none)
  definitions, \* keys of the CUSTOMER metafield definitions of namespace "favorite", in the store's order
  run          \* the runs of the app loader: position, locals, what they issued

vars == <<store, nextId, req, lastWriter, definitions, run>>

Keys == Customers \X Namespaces

NoResponse ==
  [status |-> 0, success |-> FALSE, error |-> None, errors |-> <<>>,
   favorites |-> <<>>, added |-> 0, deleted |-> FALSE, verificationResult |-> None]

\* json({success: false, error}, {status})
Failure(status, error) == [NoResponse EXCEPT !.status = status, !.error = error]

\* The catch block of a handler: json({success: false, error: error.message}, {status: 500})
Caught(message) == Failure(500, message)

\* A pass-through that reports only the first error of the list.
ErrorsResponseFirstOnly(errors) ==
  [NoResponse EXCEPT !.status = 400, !.errors = SubSeq(errors, 1, 1)]

\* json({success: false, errors}, {status: 400})
ErrorsResponse(errors) == [NoResponse EXCEPT !.status = 400, !.errors = errors]

\* The fixed response to a protected-data access denial.
AccessPolicyResponse == Failure(403, "Protected Customer Data Access Required")

\* A request that has not arrived. storedField is history: the field the store
\* held when it answered the read of an ADD (the handler sees existingMetafield).
IdleRequest ==
  [kind |-> None, pc |-> "idle", body |-> FALSE, customerId |-> None, shop |-> None,
   productHandle |-> <<>>, metafields |-> [isArray |-> FALSE, items |-> <<>>],
   metafieldNamespace |-> None, existingMetafield |-> NoField,
   currentFavorites |-> <<>>, allNewFavorites |-> <<>>, favorites |-> <<>>,
   mutation |-> None, readErrors |-> <<>>, writeOk |-> TRUE, writeErrors |-> <<>>,
   writeUserErrors |-> <<>>, storedField |-> NoField,
   resp |-> NoResponse, calls |-> <<>>]

\* One call to a collaborator, as the request issued it.
Call(op, owner, ns, id, value) ==
  [op |-> op, owner |-> owner, namespace |-> ns, key |-> FavoritesKey, id |-> id, value |-> value]
SessionCall == [op |-> "session", owner |-> None, namespace |-> None, key |-> None,
                id |-> 0, value |-> <<>>]

\* No request has arrived; at most one field exists, with id 1.
InitFrom(in) ==
  /\ \E k \in Keys, f \in {NoField} \cup {Field(1, v) : v \in in.values} :
       store = [j \in Keys |-> IF j = k THEN f ELSE NoField]
  /\ nextId = 2
  /\ req = [r \in Requests |-> IdleRequest]
  /\ lastWriter = [k \in Keys |-> 0]

\* What the store's query returns for customer(id).metafield(namespace, key).
QueryMetafield(owner, ns) ==
  IF owner \in Customers THEN store[<<owner, ns>>] ELSE NoField

\* A scan that looks at the first error only.
AccessDeniedFirstOnly(errors) ==
  /\ Len(errors) > 0
  /\ errors[1].code = "ACCESS_DENIED"
  /\ errors[1].message = "protected customer data"

\* errors.find(e => e.extensions?.code === "ACCESS_DENIED" &&
\*                  e.message.includes("protected customer data")) is defined
AccessDeniedError(errors) ==
  \E i \in 1..Len(errors) :
    /\ errors[i].code = "ACCESS_DENIED"
    /\ errors[i].message = "protected customer data"

\* A handler that does not return on the errors of its write and goes on to
\* the verification read.
DoneUnlessWriteErrors(r, rq, resp) ==
  req' = [req EXCEPT ![r] =
            [rq EXCEPT !.pc = IF rq.pc = "write" /\ resp.errors # <<>> THEN "verify" ELSE "done",
                       !.resp = resp]]

\* The handler returns: the response is set and the request is over.
Done(r, rq, resp) == req' = [req EXCEPT ![r] = [rq EXCEPT !.pc = "done", !.resp = resp]]

\* ------------------------------------------------- ADD: update-metafields
\* metafield.value is truthy
Truthy(value) ==
  CASE value.type = "none" -> FALSE
    [] value.type = "string" -> value.s # <<>>
    [] OTHER -> TRUE

\* The candidates one entry of the request contributes.
NewValues(metafield) ==
  IF metafield.key = FavoritesKey /\ Truthy(metafield.value)
  THEN CASE metafield.value.type = "string" ->
              ParseFavorites(StripQuotes(metafield.value.s))
         [] metafield.value.type = "array" ->
              FilterBoolean(MapClean(metafield.value.a))
         [] OTHER ->
              FilterBoolean(<<CleanLine(metafield.value.s)>>)
  ELSE <<>>

RECURSIVE AllNewFavorites(_)
\* metafields.forEach(... allNewFavorites.push(...newValues))
AllNewFavorites(metafields) ==
  IF Len(metafields) = 0 THEN <<>>
  ELSE NewValues(metafields[1]) \o AllNewFavorites(Tail(metafields))

\* The namespace of the first favorite_products entry, "favorites" when it gives none.
MetafieldNamespace(metafields) ==
  LET found == {i \in 1..Len(metafields) : metafields[i].key = FavoritesKey}
  IN IF found = {} THEN "favorites"
     ELSE LET first == CHOOSE i \in found : \A j \in found : i <= j
          IN IF metafields[first].namespace # None
             THEN metafields[first].namespace ELSE "favorites"

\* An ADD that starts from the empty list, whatever it read.
CurrentFavoritesForgotten(existingMetafield) == <<>>

\* existingMetafield?.value ? parse(value) : []
CurrentFavoritesOf(existingMetafield) ==
  IF existingMetafield.present /\ existingMetafield.value # <<>>
  THEN ParseFavorites(existingMetafield.value) ELSE <<>>

\* A merge that keeps duplicates.
MergedFavoritesConcat(currentFavorites, allNewFavorites) ==
  currentFavorites \o allNewFavorites

\* Array.from(new Set([...currentFavorites, ...allNewFavorites]))
MergedFavorites(currentFavorites, allNewFavorites) ==
  ArrayFromSet(currentFavorites \o allNewFavorites)

\* The error the checks of the parsed body throw, None when it passes them.
AddValidation(body, customerId, shop, metafields) ==
  IF ~body THEN "Invalid request body. Expected JSON."
  ELSE IF customerId = None THEN "Missing required field: customerId"
  ELSE IF shop = None THEN "Missing required field: shop"
  ELSE IF ~metafields.isArray \/ Len(metafields.items) = 0
  THEN "metafields must be a non-empty array"
  ELSE None

\* The request body is parsed and validated, and the session is looked up.
AddStart(r, in) ==
  /\ req[r].pc = "idle"
  /\ \E body \in in.bodies, customerId \in in.customerIds, shop \in in.shops,
        metafields \in in.metafields, session \in in.sessions :
       LET rq == [req[r] EXCEPT !.kind = "ADD", !.body = body, !.customerId = customerId,
                                !.shop = shop, !.metafields = metafields]
       IN /\ ~body => (customerId = None /\ shop = None /\ ~metafields.isArray)
          /\ IF AddValidation(body, customerId, shop, metafields) # None THEN
               /\ session = "found"
               /\ Done(r, rq, Caught(AddValidation(body, customerId, shop, metafields)))
             ELSE LET rs == [rq EXCEPT !.calls = Append(@, SessionCall)]
                  IN CASE session = "throws" -> Done(r, rs, Caught("session storage failed"))
                       [] session = "none" ->
                            Done(r, rs, Caught("No active session found for shop"))
                       [] OTHER ->
                            req' = [req EXCEPT ![r] =
                              [rs EXCEPT !.pc = "read",
                                 !.metafieldNamespace = MetafieldNamespace(metafields.items)]]
  /\ UNCHANGED <<store, nextId, lastWriter>>
  /\ UNCHANGED <<definitions, run>>

\* The handler after the body of the initial read arrived: classify its errors,
\* parse the current list, collect the candidates, merge, and either answer or
\* go on to the write.
AddAfterRead(r, rq0, errors, metafield) ==
  LET rq == [rq0 EXCEPT !.readErrors = errors, !.existingMetafield = metafield,
                        !.storedField = QueryMetafield(rq0.customerId, rq0.metafieldNamespace)] IN
  IF Len(errors) > 0 /\ AccessDeniedError(errors) THEN Done(r, rq, AccessPolicyResponse)
  ELSE
    LET currentFavorites == CurrentFavoritesOf(metafield)
        allNewFavorites == AllNewFavorites(rq.metafields.items)
        mergedFavorites == MergedFavorites(currentFavorites, allNewFavorites)
        rl == [rq EXCEPT
                         !.currentFavorites = currentFavorites,
                         !.allNewFavorites = allNewFavorites,
                         !.favorites = mergedFavorites]
    IN IF Len(mergedFavorites) = 0
       THEN Done(r, rl, [Failure(400, "No valid product handles found after processing")
                           EXCEPT !.favorites = allNewFavorites])
       ELSE req' = [req EXCEPT ![r] = [rl EXCEPT !.pc = "write", !.mutation = "set"]]

\* The initial read: the store answers the query, or the call fails.
AddRead(r, in) ==
  /\ req[r].pc = "read" /\ req[r].kind = "ADD"
  /\ LET rq == [req[r] EXCEPT !.calls =
                  Append(@, Call("read", req[r].customerId, req[r].metafieldNamespace, 0, <<>>))]
     IN \/ Done(r, rq, Caught("fetch failed"))
        \/ Done(r, rq, Caught("invalid json response body"))
        \/ \E errors \in in.errors : AddAfterRead(r, rq, errors, NoField)
        \/ AddAfterRead(r, rq, <<>>, QueryMetafield(rq.customerId, rq.metafieldNamespace))
  /\ UNCHANGED <<store, nextId, lastWriter>>
  /\ UNCHANGED <<definitions, run>>

\* The store applies metafieldsSet: the field is created when absent (with a
\* fresh id) and overwritten when present.
StoreSet(r, owner, ns, value) ==
  LET k == <<owner, ns>>
  IN /\ store' = [store EXCEPT ![k] =
                    IF store[k].present THEN Field(store[k].id, value) ELSE Field(nextId, value)]
     /\ nextId' = IF store[k].present THEN nextId ELSE nextId + 1
     /\ lastWriter' = [lastWriter EXCEPT ![k] = r]

\* The store applies metafieldDelete on the field that has this id.
StoreDelete(r, id) ==
  LET k == CHOOSE j \in Keys : store[j].present /\ store[j].id = id
  IN /\ store' = [store EXCEPT ![k] = NoField]
     /\ lastWriter' = [lastWriter EXCEPT ![k] = r]
     /\ UNCHANGED nextId

\* The store accepts the mutation the request is about to send.
StoreAccepts(rq) ==
  IF rq.mutation = "set" THEN rq.customerId \in Customers
  ELSE \E j \in Keys : store[j].present /\ store[j].id = rq.existingMetafield.id

\* A mutation call that writes to a namespace fixed in the handler.
MutationCallFixedNamespace(rq) ==
  IF rq.mutation = "set"
  THEN Call("set", rq.customerId, "favorites", 0, Join(rq.favorites))
  ELSE Call("delete", None, None, rq.existingMetafield.id, <<>>)

\* The mutation call as the request issues it.
MutationCall(rq) ==
  IF rq.mutation = "set"
  THEN Call("set", rq.customerId, rq.metafieldNamespace, 0, Join(rq.favorites))
  ELSE Call("delete", None, None, rq.existingMetafield.id, <<>>)

\* The write of ADD: the call fails, or the store answers with a non-OK status,
\* an unreadable body, top-level errors or user errors and applies nothing, or
\* it applies the mutation and the handler goes on to the verification read.
AddWrite(r, in) ==
  /\ req[r].pc = "write" /\ req[r].kind = "ADD"
  /\ LET rq == [req[r] EXCEPT !.calls = Append(@, MutationCall(req[r]))]
     IN \/ /\ \/ Done(r, rq, Caught("fetch failed"))
              \/ \E errors \in NotOkErrors :
                   Done(r, [rq EXCEPT !.writeOk = FALSE, !.writeErrors = errors],
                        Caught("GraphQL request failed"))
              \/ Done(r, rq, Caught("invalid json response body"))
              \/ \E errors \in in.errors :
                   IF AccessDeniedError(errors)
                   THEN Done(r, [rq EXCEPT !.writeErrors = errors], AccessPolicyResponse)
                   ELSE Done(r, [rq EXCEPT !.writeErrors = errors], ErrorsResponse(errors))
              \/ \E userErrors \in in.userErrors :
                   Done(r, [rq EXCEPT !.writeUserErrors = userErrors],
                        ErrorsResponse(userErrors))
           /\ UNCHANGED <<store, nextId, lastWriter>>
        \/ /\ StoreAccepts(rq)
           /\ StoreSet(r, rq.customerId, rq.metafieldNamespace, Join(rq.favorites))
           /\ req' = [req EXCEPT ![r] = [rq EXCEPT !.pc = "verify"]]
  /\ UNCHANGED <<definitions, run>>

\* json({success: true, newFavoritesAdded, allFavorites, ...})
AddSuccess(rq) ==
  [NoResponse EXCEPT !.status = 200, !.success = TRUE, !.favorites = rq.favorites,
                     !.added = Len(rq.allNewFavorites)]

\* The verification read of ADD and the response that follows it.
AddVerify(r, in) ==
  /\ req[r].pc = "verify" /\ req[r].kind = "ADD"
  /\ LET rq == [req[r] EXCEPT !.calls = Append(@,
                  Call("verify", req[r].customerId, req[r].metafieldNamespace, 0, <<>>))]
     IN \/ Done(r, rq, Caught("fetch failed"))
        \/ Done(r, rq, Caught("invalid json response body"))
        \/ Done(r, rq, [AddSuccess(rq) EXCEPT !.verificationResult = "errors"])
        \/ Done(r, rq, [AddSuccess(rq) EXCEPT !.verificationResult = "data"])
  /\ UNCHANGED <<store, nextId, lastWriter>>
  /\ UNCHANGED <<definitions, run>>

\* ---------------------------------------------- REMOVE: remove-metafields
\* const metafieldNamespace = "favorite"
RemoveNamespace == "favorite"

\* A removal that stops at the first entry equal to the handle.
UpdatedFavoritesFirstOnly(currentFavorites, productHandle) ==
  LET hits == {i \in 1..Len(currentFavorites) : currentFavorites[i] = productHandle}
  IN IF hits = {} THEN currentFavorites
     ELSE LET first == CHOOSE i \in hits : \A j \in hits : i <= j
          IN SubSeq(currentFavorites, 1, first - 1)
               \o SubSeq(currentFavorites, first + 1, Len(currentFavorites))

\* currentFavorites.filter(handle => handle !== productHandle)
UpdatedFavorites(currentFavorites, productHandle) ==
  SelectSeq(currentFavorites, LAMBDA handle : handle # productHandle)

\* A REMOVE that always updates the field, also with nothing left.
RemoveMutationAlwaysSet(updatedFavorites) == "set"

\* if (updatedFavorites.length === 0) metafieldDelete else metafieldsSet
RemoveMutation(updatedFavorites) ==
  IF Len(updatedFavorites) = 0 THEN "delete" ELSE "set"

\* Checks that let a request without productHandle pass.
RemoveValidationNoHandle(body, customerId, productHandle, shop) ==
  IF ~body THEN "Invalid request body. Expected JSON."
  ELSE IF customerId = None THEN "Missing required field: customerId"
  ELSE IF shop = None THEN "Missing required field: shop"
  ELSE None

\* The error the checks of the parsed body throw, None when it passes them.
RemoveValidation(body, customerId, productHandle, shop) ==
  IF ~body THEN "Invalid request body. Expected JSON."
  ELSE IF customerId = None THEN "Missing required field: customerId"
  ELSE IF productHandle = <<>> THEN "Missing required field: productHandle"
  ELSE IF shop = None THEN "Missing required field: shop"
  ELSE None

\* A check that lets every handle pass.
IncludesAnything(currentFavorites, productHandle) == TRUE

\* currentFavorites.includes(productHandle)
Includes(currentFavorites, productHandle) == productHandle \in Range(currentFavorites)

\* The request body is parsed and validated, and the session is looked up.
RemoveStart(r, in) ==
  /\ req[r].pc = "idle"
  /\ \E body \in in.bodies, customerId \in in.customerIds, shop \in in.shops,
        productHandle \in in.productHandles, session \in in.sessions :
       LET rq == [req[r] EXCEPT !.kind = "REMOVE", !.body = body, !.customerId = customerId,
                                !.shop = shop, !.productHandle = productHandle]
       IN /\ ~body => (customerId = None /\ shop = None /\ productHandle = <<>>)
          /\ IF RemoveValidation(body, customerId, productHandle, shop) # None THEN
               /\ session = "found"
               /\ Done(r, rq, Caught(RemoveValidation(body, customerId, productHandle, shop)))
             ELSE LET rs == [rq EXCEPT !.calls = Append(@, SessionCall)]
                  IN CASE session = "throws" -> Done(r, rs, Caught("session storage failed"))
                       [] session = "none" ->
                            Done(r, rs, Caught("No active session found for shop"))
                       [] OTHER ->
                            req' = [req EXCEPT ![r] =
                              [rs EXCEPT !.pc = "read", !.metafieldNamespace = RemoveNamespace]]
  /\ UNCHANGED <<store, nextId, lastWriter>>
  /\ UNCHANGED <<definitions, run>>

\* The handler after the body of the initial read arrived.
RemoveAfterRead(r, rq0, errors, metafield) ==
  LET rq == [rq0 EXCEPT !.readErrors = errors, !.existingMetafield = metafield] IN
  IF Len(errors) > 0 /\ AccessDeniedError(errors) THEN Done(r, rq, AccessPolicyResponse)
  ELSE IF ~metafield.present \/ metafield.value = <<>>
  THEN Done(r, rq, Failure(404, "No favorite products found for this customer"))
  ELSE
    LET currentFavorites == ParseFavorites(metafield.value)
        updatedFavorites == UpdatedFavorites(currentFavorites, rq.productHandle)
        rl == [rq EXCEPT !.currentFavorites = currentFavorites]
    IN IF ~Includes(currentFavorites, rq.productHandle)
       THEN Done(r, rl, [Failure(404, "Product handle not found in favorites")
                           EXCEPT !.favorites = currentFavorites])
       ELSE req' = [req EXCEPT ![r] =
                      [rl EXCEPT !.pc = "write", !.favorites = updatedFavorites,
                         !.mutation = RemoveMutation(updatedFavorites)]]

RemoveRead(r, in) ==
  /\ req[r].pc = "read" /\ req[r].kind = "REMOVE"
  /\ LET rq == [req[r] EXCEPT !.calls =
                  Append(@, Call("read", req[r].customerId, req[r].metafieldNamespace, 0, <<>>))]
     IN \/ Done(r, rq, Caught("fetch failed"))
        \/ Done(r, rq, Caught("invalid json response body"))
        \/ \E errors \in in.errors : RemoveAfterRead(r, rq, errors, NoField)
        \/ RemoveAfterRead(r, rq, <<>>, QueryMetafield(rq.customerId, rq.metafieldNamespace))
  /\ UNCHANGED <<store, nextId, lastWriter>>
  /\ UNCHANGED <<definitions, run>>

\* The write of REMOVE: metafieldDelete when nothing remains, metafieldsSet otherwise.
RemoveWrite(r, in) ==
  /\ req[r].pc = "write" /\ req[r].kind = "REMOVE"
  /\ LET rq == [req[r] EXCEPT !.calls = Append(@, MutationCall(req[r]))]
     IN \/ /\ \/ Done(r, rq, Caught("fetch failed"))
              \/ \E errors \in NotOkErrors :
                   Done(r, [rq EXCEPT !.writeOk = FALSE, !.writeErrors = errors],
                        Caught("GraphQL request failed"))
              \/ Done(r, rq, Caught("invalid json response body"))
              \/ \E errors \in in.errors :
                   IF AccessDeniedError(errors)
                   THEN Done(r, [rq EXCEPT !.writeErrors = errors], AccessPolicyResponse)
                   ELSE Done(r, [rq EXCEPT !.writeErrors = errors], ErrorsResponse(errors))
              \/ \E userErrors \in in.userErrors :
                   Done(r, [rq EXCEPT !.writeUserErrors = userErrors],
                        ErrorsResponse(userErrors))
           /\ UNCHANGED <<store, nextId, lastWriter>>
        \/ /\ StoreAccepts(rq)
           /\ IF rq.mutation = "set"
              THEN StoreSet(r, rq.customerId, rq.metafieldNamespace, Join(rq.favorites))
              ELSE StoreDelete(r, rq.existingMetafield.id)
           /\ req' = [req EXCEPT ![r] = [rq EXCEPT !.pc = "verify"]]
  /\ UNCHANGED <<definitions, run>>

\* json({success: true, remainingFavorites, deleted, ...})
RemoveSuccess(rq) ==
  [NoResponse EXCEPT !.status = 200, !.success = TRUE, !.favorites = rq.favorites,
                     !.deleted = (Len(rq.favorites) = 0)]

RemoveVerify(r, in) ==
  /\ req[r].pc = "verify" /\ req[r].kind = "REMOVE"
  /\ LET rq == [req[r] EXCEPT !.calls = Append(@,
                  Call("verify", req[r].customerId, req[r].metafieldNamespace, 0, <<>>))]
     IN \/ Done(r, rq, Caught("fetch failed"))
        \/ Done(r, rq, Caught("invalid json response body"))
        \/ Done(r, rq, [RemoveSuccess(rq) EXCEPT !.verificationResult = "errors"])
        \/ Done(r, rq, [RemoveSuccess(rq) EXCEPT !.verificationResult = "data"])
  /\ UNCHANGED <<store, nextId, lastWriter>>
  /\ UNCHANGED <<definitions, run>>

\* ------------------------------------------------ READ-ALL: get-metafields
\* metafield(namespace: "favorites", key: "favorite_products")
LoaderNamespace == "favorites"

\* favoritesMetafield?.value ? value.split('\n').filter(Boolean) : []
FavoriteProducts(metafield) ==
  IF metafield.present /\ metafield.value # <<>>
  THEN FilterBoolean(Split(metafield.value)) ELSE <<>>

\* The error the checks of the query parameters throw, None when they pass.
LoaderValidation(customerId, shop) ==
  IF customerId = None THEN "Missing required parameter: customerId"
  ELSE IF shop = None THEN "Missing required parameter: shop"
  ELSE None

\* The query parameters are validated and the session is looked up.
LoaderStart(r, in) ==
  /\ req[r].pc = "idle"
  /\ \E customerId \in in.queryCustomerIds, shop \in in.shops, session \in in.sessions :
       LET rq == [req[r] EXCEPT !.kind = "READ", !.body = TRUE, !.customerId = customerId,
                                !.shop = shop]
       IN IF LoaderValidation(customerId, shop) # None THEN
            /\ session = "found"
            /\ Done(r, rq, Caught(LoaderValidation(customerId, shop)))
          ELSE LET rs == [rq EXCEPT !.calls = Append(@, SessionCall)]
               IN CASE session = "throws" -> Done(r, rs, Caught("session storage failed"))
                    [] session = "none" ->
                         Done(r, rs, Caught("No active session found for shop"))
                    [] OTHER ->
                         req' = [req EXCEPT ![r] =
                           [rs EXCEPT !.pc = "read", !.metafieldNamespace = LoaderNamespace]]
  /\ UNCHANGED <<store, nextId, lastWriter>>
  /\ UNCHANGED <<definitions, run>>

LoaderRead(r, in) ==
  /\ req[r].pc = "read" /\ req[r].kind = "READ"
  /\ LET rq == [req[r] EXCEPT !.calls =
                  Append(@, Call("read", req[r].customerId, req[r].metafieldNamespace, 0, <<>>))]
         metafield == QueryMetafield(rq.customerId, rq.metafieldNamespace)
     IN \/ Done(r, rq, Caught("fetch failed"))
        \/ Done(r, rq, Caught("GraphQL request failed"))
        \/ Done(r, rq, Caught("invalid json response body"))
        \/ \E errors \in in.errors : Done(r, rq, ErrorsResponse(errors))
        \/ IF rq.customerId \notin Customers
           THEN Done(r, rq, Failure(404, "Customer not found"))
           ELSE Done(r, [rq EXCEPT !.existingMetafield = metafield],
                     [NoResponse EXCEPT !.status = 200, !.success = TRUE,
                                        !.favorites = FavoriteProducts(metafield)])
  /\ UNCHANGED <<store, nextId, lastWriter>>
  /\ UNCHANGED <<definitions, run>>

\* ----------------------------------------------------- app loader: app.jsx
Runs == 1..NumRuns
\* metafieldDefinitions(namespace: "favorite", ownerType: CUSTOMER, first: 1)
First == 1
DefinitionKey == "favorite_products"
\* Keys of definitions the namespace may hold.
DefinitionKeys == {"favorite_products", "other", "notes"}
\* The definitions of the namespace before the first run: distinct keys, in any order.
DefinitionLists ==
  {d \in UNION {[1..n -> DefinitionKeys] : n \in 0..MaxDefinitions} :
     \A i, j \in 1..Len(d) : i # j => d[i] # d[j]}

\* A run that has not started. existed is history: whether the definition
\* existed when the store answered the check of the run.
IdleRun ==
  [pc |-> "idle", checkErrors |-> FALSE, alreadyExists |-> FALSE, existed |-> FALSE,
   createIssued |-> FALSE, returned |-> FALSE]

\* checkData.metafieldDefinitions.edges: the first First definitions.
Edges(defs) == SubSeq(defs, 1, IF Len(defs) < First THEN Len(defs) ELSE First)

\* existingDefinitions.some(edge => edge.node.key === "favorite_products")
AlreadyExists(existingDefinitions) ==
  \E i \in 1..Len(existingDefinitions) : existingDefinitions[i] = DefinitionKey

\* The loader returns { apiKey, accessToken }.
Returned(l, rn) == run' = [run EXCEPT ![l] = [rn EXCEPT !.pc = "done", !.returned = TRUE]]

\* The check of the loader: the call or the parsing of its body throws (caught
\* and logged), the store answers with errors and no data, or it answers with
\* the edges; the loader returns when the definition was seen and goes on to
\* create it otherwise.
AppLoaderCheck(l) ==
  /\ run[l].pc = "idle"
  /\ LET rn == [run[l] EXCEPT !.existed = AlreadyExists(definitions)]
         after(checkErrors, existingDefinitions) ==
           IF AlreadyExists(existingDefinitions)
           THEN Returned(l, [rn EXCEPT !.alreadyExists = TRUE])
           ELSE run' = [run EXCEPT ![l] =
                          [rn EXCEPT !.pc = "create", !.checkErrors = checkErrors]]
     IN \/ Returned(l, run[l])
        \/ after(TRUE, <<>>)
        \/ after(FALSE, Edges(definitions))
  /\ UNCHANGED <<store, nextId, req, lastWriter, definitions>>

\* metafieldDefinitionCreate: the call throws, the store answers with errors,
\* it answers with user errors because the key is taken, or it creates the
\* definition; the loader logs the outcome and returns.
AppLoaderCreate(l) ==
  /\ run[l].pc = "create"
  /\ Returned(l, [run[l] EXCEPT !.createIssued = TRUE])
  /\ \/ UNCHANGED definitions
     \/ /\ ~AlreadyExists(definitions)
        /\ definitions' = Append(definitions, DefinitionKey)
  /\ UNCHANGED <<store, nextId, req, lastWriter>>

\* No run of the app loader has started and the namespace holds no definition.
NoAppLoader == definitions = <<>> /\ run = [l \in Runs |-> IdleRun]

\* ------------------------------------------------------------ specification
\* One step of request r, its inputs drawn from in.
Step(r, in) ==
  \/ AddStart(r, in) \/ AddRead(r, in) \/ AddWrite(r, in) \/ AddVerify(r, in)
  \/ RemoveStart(r, in) \/ RemoveRead(r, in) \/ RemoveWrite(r, in) \/ RemoveVerify(r, in)
  \/ LoaderStart(r, in) \/ LoaderRead(r, in)

\* One request, of any shape, against any stored value.
Init == InitFrom(Wide) /\ NoAppLoader
Next == Step(1, Wide)
Spec == Init /\ [][Next]_vars

\* Several well-formed requests, interleaved at their store calls.
InitRace == InitFrom(Narrow) /\ NoAppLoader
NextRace == \E r \in Requests : Step(r, Narrow)
SpecRace == InitRace /\ [][NextRace]_vars

\* One well-formed request against any raw field value.
InitCodec == InitFrom(Raw) /\ NoAppLoader
NextCodec == Step(1, Raw)
SpecCodec == InitCodec /\ [][NextCodec]_vars

\* Runs of the app loader against any definitions of the namespace.
InitLoader ==
  /\ store = [k \in Keys |-> NoField] /\ nextId = 1
  /\ req = [r \in Requests |-> IdleRequest] /\ lastWriter = [k \in Keys |-> 0]
  /\ definitions \in DefinitionLists
  /\ run = [l \in Runs |-> IdleRun]
NextLoader == \E l \in Runs : AppLoaderCheck(l) \/ AppLoaderCreate(l)
SpecLoader == InitLoader /\ [][NextLoader]_vars

\* ------------------------------------------------------------------ claims
IsDone(r) == req[r].pc = "done"
\* The request has issued its initial read and the call has returned.
PastRead(r) ==
  \/ req[r].pc \in {"write", "verify"}
  \/ IsDone(r) /\ \E i \in 1..Len(req[r].calls) : req[r].calls[i].op = "read"
CallsOf(r, ops) == SelectSeq(req[r].calls, LAMBDA c : c.op \in ops)
Mutations(r) == CallsOf(r, {"set", "delete"})

\* The entries of ls at their first occurrence, in the order of ls.
RECURSIVE FirstOccurrences(_)
FirstOccurrences(ls) ==
  IF Len(ls) = 0 THEN <<>>
  ELSE LET front == SubSeq(ls, 1, Len(ls) - 1)
           last == ls[Len(ls)]
       IN IF \E i \in 1..Len(front) : front[i] = last
          THEN FirstOccurrences(front)
          ELSE Append(FirstOccurrences(front), last)

\* C1: the list an ADD writes is current ++ incoming with duplicates removed,
\* each handle at the position of its first occurrence.
C1_AddWritesMerged ==
  \A r \in Requests :
    req[r].kind = "ADD" =>
      \A i \in 1..Len(req[r].calls) :
        req[r].calls[i].op = "set" =>
          req[r].calls[i].value =
            Join(FirstOccurrences(req[r].currentFavorites \o req[r].allNewFavorites))

\* C1 witness: current [a,b] and incoming [b,c] were written as [a,b,c].
C1_Witness ==
  \E r \in Requests :
    /\ req[r].kind = "ADD"
    /\ req[r].currentFavorites = << <<"a">>, <<"b">> >>
    /\ req[r].allNewFavorites = << <<"b">>, <<"c">> >>
    /\ \E i \in 1..Len(req[r].calls) :
         /\ req[r].calls[i].op = "set"
         /\ req[r].calls[i].value = <<"a", "NL", "b", "NL", "c">>

\* C2 (as claimed): an ADD that decodes no incoming handle issues no
\* set-mutation and, once its read was answered, ends in a validation error,
\* whatever the stored list is.
C2_EmptyIncomingNeverWrites ==
  \A r \in Requests :
    (/\ req[r].kind = "ADD"
     /\ req[r].metafields.isArray /\ Len(req[r].metafields.items) > 0
     /\ AllNewFavorites(req[r].metafields.items) = <<>>)
    => /\ Len(CallsOf(r, {"set"})) = 0
       /\ req[r].pc \notin {"write", "verify"}
       /\ IsDone(r) => ~req[r].resp.success

\* C3: a REMOVE that leaves nothing issues one delete-mutation on the id it read
\* and no set-mutation; a REMOVE that leaves handles issues one set-mutation with
\* exactly those handles; no set-mutation carries an empty value.
C3_RemoveMutation ==
  \A r \in Requests :
    req[r].kind = "REMOVE" =>
      LET remaining == SelectSeq(req[r].currentFavorites, LAMBDA h : h # req[r].productHandle)
          m == Mutations(r)
      IN /\ Len(m) <= 1
         /\ req[r].pc \in {"verify"} => Len(m) = 1
         /\ \A i \in 1..Len(m) :
              /\ Len(remaining) = 0 =>
                   m[i].op = "delete" /\ m[i].id = req[r].existingMetafield.id
              /\ Len(remaining) > 0 =>
                   m[i].op = "set" /\ m[i].value = Join(remaining)
              /\ m[i].op = "set" => m[i].value # <<>>

\* C3 witness: a REMOVE emptied the list and the store applied its delete.
C3_Witness ==
  \E r \in Requests :
    /\ req[r].kind = "REMOVE" /\ IsDone(r) /\ req[r].resp.success /\ req[r].resp.deleted
    /\ Len(Mutations(r)) = 1 /\ Mutations(r)[1].op = "delete"
    /\ \A k \in Keys : ~store[k].present

\* C4: a REMOVE whose target is not in the decoded current list answers 404
\* "not found" with the current list, issues no mutation and changes no field.
C4_RemoveAbsentTarget ==
  \A r \in Requests :
    (/\ req[r].kind = "REMOVE" /\ PastRead(r)
     /\ req[r].existingMetafield.present /\ req[r].existingMetafield.value # <<>>
     /\ ~AccessDeniedError(req[r].readErrors)
     /\ req[r].productHandle \notin Range(ParseFavorites(req[r].existingMetafield.value)))
    => /\ IsDone(r)
       /\ req[r].resp.status = 404 /\ ~req[r].resp.success
       /\ req[r].resp.error = "Product handle not found in favorites"
       /\ req[r].resp.favorites = ParseFavorites(req[r].existingMetafield.value)
       /\ Len(Mutations(r)) = 0
       /\ \A k \in Keys : lastWriter[k] # r

\* C4 witness: a REMOVE of a handle that is not in a non-empty list has answered.
C4_Witness ==
  \E r \in Requests :
    /\ req[r].kind = "REMOVE" /\ IsDone(r)
    /\ req[r].existingMetafield.present
    /\ Len(req[r].currentFavorites) > 0
    /\ req[r].productHandle \notin Range(req[r].currentFavorites)
    /\ req[r].resp.status = 404

RECURSIVE WithoutAll(_, _)
\* ls without the entries equal to h, the others in their order.
WithoutAll(ls, h) ==
  IF Len(ls) = 0 THEN <<>>
  ELSE IF ls[1] = h THEN WithoutAll(Tail(ls), h)
  ELSE <<ls[1]>> \o WithoutAll(Tail(ls), h)

\* C5: a successful REMOVE reports, and leaves stored, the current list without
\* every entry equal to the target and with nothing else removed.
C5_RemoveAllOccurrences ==
  \A r \in Requests :
    (req[r].kind = "REMOVE" /\ IsDone(r) /\ req[r].resp.success) =>
      LET current == ParseFavorites(req[r].existingMetafield.value)
          remaining == WithoutAll(current, req[r].productHandle)
      IN /\ req[r].resp.favorites = remaining
         /\ req[r].resp.deleted = (remaining = <<>>)
         /\ \A i \in 1..Len(Mutations(r)) :
              Mutations(r)[i].op = "set" => Mutations(r)[i].value = Join(remaining)

\* C5 witness: [a,b,c] minus b gave [a,c], not deleted.
C5_Witness ==
  \E r \in Requests :
    /\ req[r].kind = "REMOVE" /\ IsDone(r) /\ req[r].resp.success
    /\ req[r].currentFavorites = << <<"a">>, <<"b">>, <<"c">> >>
    /\ req[r].productHandle = <<"b">>
    /\ req[r].resp.favorites = << <<"a">>, <<"c">> >>
    /\ ~req[r].resp.deleted

\* C5 witness of the duplicates: a target stored twice is removed twice.
C5_WitnessTwice ==
  \E r \in Requests :
    /\ req[r].kind = "REMOVE" /\ IsDone(r) /\ req[r].resp.success
    /\ req[r].currentFavorites = << <<"a">>, <<"b">>, <<"a">> >>
    /\ req[r].productHandle = <<"a">>

\* The error list holds an entry with the access-denied code.
HasAccessCode(errors) == \E i \in 1..Len(errors) : errors[i].code = "ACCESS_DENIED"

\* The error list holds an access-denied entry that speaks of protected customer data.
ProtectedDenial(errors) ==
  \E i \in 1..Len(errors) :
    errors[i].code = "ACCESS_DENIED" /\ errors[i].message = "protected customer data"

C7_VerifyNeverFailsRequest ==
  \A r \in Requests :
    (req[r].kind \in {"ADD", "REMOVE"} /\ IsDone(r) /\ Len(CallsOf(r, {"verify"})) > 0)
      => req[r].resp.success

\* What a request that has read computes from its own read and its own input.
ComputedBy(r) ==
  LET read == IF req[r].existingMetafield.present /\ req[r].existingMetafield.value # <<>>
              THEN ParseFavorites(req[r].existingMetafield.value) ELSE <<>>
  IN IF req[r].kind = "ADD"
     THEN FirstOccurrences(read \o AllNewFavorites(req[r].metafields.items))
     ELSE WithoutAll(read, req[r].productHandle)

\* The decoded list of a stored field.
StoredList(k) == IF store[k].present THEN ParseFavorites(store[k].value) ELSE <<>>

\* C8: the last writer wins: a field holds what the request whose mutation was
\* applied last computed from its own read, nothing of what was written between
\* that read and that write.
C8_LastWriterWins ==
  \A k \in Keys :
    lastWriter[k] # 0 =>
      LET computed == ComputedBy(lastWriter[k])
      IN IF computed = <<>> THEN ~store[k].present
         ELSE store[k].present /\ store[k].value = Join(computed)

\* C8 witness: two requests that read the same value of one field both reported
\* success, and the field
\* holds the list of the request that wrote last, without the handle the other
\* request added or with the handle the other request removed.
C8_Witness ==
  \E r1, r2 \in Requests :
    /\ r1 # r2
    /\ IsDone(r1) /\ req[r1].resp.success /\ req[r1].kind \in {"ADD", "REMOVE"}
    /\ IsDone(r2) /\ req[r2].resp.success /\ req[r2].kind \in {"ADD", "REMOVE"}
    /\ req[r1].customerId = req[r2].customerId
    /\ req[r1].metafieldNamespace = req[r2].metafieldNamespace
    /\ req[r1].readErrors = <<>> /\ req[r2].readErrors = <<>>
    /\ req[r1].existingMetafield = req[r2].existingMetafield
    /\ LET k == <<req[r2].customerId, req[r2].metafieldNamespace>>
       IN /\ lastWriter[k] = r2
          /\ StoredList(k) = ComputedBy(r2)
          /\ \/ /\ req[r1].kind = "ADD"
                /\ \E h \in Range(req[r1].allNewFavorites) :
                     /\ h \notin Range(req[r1].currentFavorites)
                     /\ h \notin Range(StoredList(k))
                     /\ ~(req[r2].kind = "REMOVE" /\ req[r2].productHandle = h)
             \/ /\ req[r1].kind = "REMOVE"
                /\ req[r1].productHandle \in Range(StoredList(k))
                /\ req[r2].kind = "REMOVE"

\* C9 (as claimed): top-level errors of the initial read that are no protected-data
\* denial end the request with those errors passed through (400) and no mutation.
C9_ReadErrorsPassedThrough ==
  \A r \in Requests :
    (/\ req[r].kind \in {"ADD", "REMOVE"}
     /\ Len(req[r].readErrors) > 0 /\ ~ProtectedDenial(req[r].readErrors))
    => /\ IsDone(r)
       /\ req[r].resp.status = 400
       /\ req[r].resp.errors = req[r].readErrors
       /\ Len(Mutations(r)) = 0

\* A required field of the request is missing or malformed.
Malformed(r) ==
  \/ req[r].customerId = None
  \/ req[r].shop = None
  \/ req[r].kind \in {"ADD", "REMOVE"} /\ ~req[r].body
  \/ req[r].kind = "ADD" /\ (~req[r].metafields.isArray \/ req[r].metafields.items = <<>>)
  \/ req[r].kind = "REMOVE" /\ req[r].productHandle = <<>>

\* C10: a request with a missing or malformed required field is rejected with no
\* call made: no session lookup, no read, no write, no verification read.
C10_RejectedBeforeAnyCall ==
  \A r \in Requests :
    (req[r].kind # None /\ Malformed(r)) =>
      /\ IsDone(r) /\ ~req[r].resp.success
      /\ req[r].calls = <<>>
      /\ \A k \in Keys : lastWriter[k] # r

\* C10 witness: a REMOVE without productHandle, an ADD whose metafields is an
\* empty array, and a READ-ALL without shop were rejected.
C10_Witness ==
  \E r \in Requests :
    /\ IsDone(r) /\ Malformed(r) /\ req[r].calls = <<>>
    /\ req[r].kind = "REMOVE" /\ req[r].body /\ req[r].customerId # None
    /\ req[r].productHandle = <<>>

\* The messages of the failures the handlers do not expect: a store call or the
\* session lookup that failed, a non-OK store status, an unparsable body.
UnexpectedFailures ==
  {"fetch failed", "GraphQL request failed", "invalid json response body",
   "session storage failed", "No active session found for shop"}

\* C11 (as claimed): a failure response has the status of its class: 400 for
\* a request with a missing or malformed field and for store-reported errors, 403
\* for the access-policy failure, 404 for not-found, 500 only for unexpected failures.
C11_StatusOfFailureClass ==
  \A r \in Requests :
    (IsDone(r) /\ ~req[r].resp.success) =>
      /\ req[r].resp.status \in {400, 403, 404, 500}
      /\ Malformed(r) => req[r].resp.status = 400
      /\ req[r].resp.errors # <<>> => req[r].resp.status = 400
      /\ req[r].resp.error = AccessPolicyResponse.error => req[r].resp.status = 403
      /\ req[r].resp.error \in {"No favorite products found for this customer",
                                "Product handle not found in favorites",
                                "Customer not found"} => req[r].resp.status = 404
      /\ req[r].resp.status = 500 => req[r].resp.error \in UnexpectedFailures

AddedByDefault(r) ==
  /\ req[r].kind = "ADD" /\ IsDone(r) /\ req[r].resp.success
  /\ \A i \in 1..Len(req[r].metafields.items) : req[r].metafields.items[i].namespace = None

\* C13 (as claimed): REMOVE works on the namespace of ADD: once an ADD that
\* named no namespace has stored handle h, the read of a REMOVE of h for that
\* customer, with no other request in between and answered without errors, does
\* not end in "not found".
C13_RemoveFindsAdded ==
  [][\A r1, r2 \in Requests :
       (/\ AddedByDefault(r1)
        /\ req[r2].kind = "REMOVE" /\ req[r2].pc = "read"
        /\ req[r2].customerId = req[r1].customerId
        /\ req[r2].productHandle \in Range(req[r1].allNewFavorites)
        /\ req'[r2].pc = "done" /\ req'[r2].readErrors = <<>>)
       => req'[r2].resp.status # 404]_vars

\* The field a call addresses.
Identity(c) == <<c.owner, c.namespace, c.key>>

\* C14: the initial read, the set-mutation and the verification read of one ADD
\* or REMOVE address one field: the customer of the request, one namespace, key
\* "favorite_products"; a delete-mutation addresses the id the request's read returned.
C14_OneFieldIdentity ==
  \A r \in Requests :
    req[r].kind \in {"ADD", "REMOVE"} =>
      LET fieldCalls == CallsOf(r, {"read", "set", "verify"})
          deletes == CallsOf(r, {"delete"})
      IN /\ \A i \in 1..Len(fieldCalls) :
              /\ Identity(fieldCalls[i]) = Identity(fieldCalls[1])
              /\ fieldCalls[i].owner = req[r].customerId
              /\ fieldCalls[i].key = "favorite_products"
         /\ \A i \in 1..Len(deletes) :
              /\ req[r].existingMetafield.present
              /\ deletes[i].id = req[r].existingMetafield.id
         /\ Len(Mutations(r)) > 0 => fieldCalls[1].op = "read"

\* C14 witness: an ADD that named namespace "favorite" has read, written and
\* verified.
C14_Witness ==
  \E r \in Requests :
    /\ req[r].kind = "ADD" /\ IsDone(r) /\ req[r].resp.success
    /\ req[r].metafieldNamespace = "favorite"
    /\ Len(CallsOf(r, {"read"})) = 1 /\ Len(CallsOf(r, {"set"})) = 1
    /\ Len(CallsOf(r, {"verify"})) = 1
    /\ CallsOf(r, {"set"})[1].namespace = "favorite"

\* C14 witness of the delete: a REMOVE deleted the field its read returned.
C14_WitnessDelete ==
  \E r \in Requests :
    /\ req[r].kind = "REMOVE" /\ IsDone(r) /\ req[r].resp.success
    /\ Len(CallsOf(r, {"delete"})) = 1
    /\ CallsOf(r, {"delete"})[1].id = req[r].existingMetafield.id
    /\ Len(CallsOf(r, {"verify"})) = 1

\* The initial read of the request got no answer: the call failed or its body
\* could not be parsed.
ReadFailed(r) ==
  /\ IsDone(r) /\ Len(Mutations(r)) = 0
  /\ req[r].resp.error \in {"fetch failed", "invalid json response body"}

\* C15 (as claimed): a REMOVE that reads no field, or a field whose value
\* decodes to the empty list, fails with "nothing to remove" (not with "target
\* not found") and issues no mutation.
C15_NothingToRemove ==
  \A r \in Requests :
    (/\ req[r].kind = "REMOVE" /\ PastRead(r) /\ ~ReadFailed(r)
     /\ ~AccessDeniedError(req[r].readErrors)
     /\ \/ ~req[r].existingMetafield.present
        \/ ParseFavorites(req[r].existingMetafield.value) = <<>>)
    => /\ IsDone(r) /\ ~req[r].resp.success
       /\ req[r].resp.status = 404
       /\ req[r].resp.error = "No favorite products found for this customer"
       /\ Len(Mutations(r)) = 0

\* C16 (as claimed): a completed request has a response with a status and a
\* boolean success, whatever failed on the way, and a failure response carries
\* an error string.
C16_StructuredResponse ==
  \A r \in Requests :
    IsDone(r) =>
      /\ req[r].resp.status # 0
      /\ req[r].resp.success \in BOOLEAN
      /\ req[r].resp.success <=> req[r].resp.status = 200
      /\ ~req[r].resp.success => req[r].resp.error # None

\* C17 (as claimed): the count of added favorites in a successful ADD response
\* is the number of net-new handles: the size of the merged list minus the
\* number of distinct handles in the current list.
C17_AddedCountsNetNew ==
  \A r \in Requests :
    (req[r].kind = "ADD" /\ IsDone(r) /\ req[r].resp.success) =>
      req[r].resp.added =
        Len(req[r].resp.favorites) - Cardinality(Range(req[r].currentFavorites))

\* The number of quote characters of a string.
QuoteCount(s) == Cardinality({i \in 1..Len(s) : s[i] \in Quotes})

RECURSIVE QuoteCountAll(_)
\* The number of quote characters of the entries of a list.
QuoteCountAll(ls) ==
  IF Len(ls) = 0 THEN 0 ELSE QuoteCount(ls[1]) + QuoteCountAll(Tail(ls))

\* C18 (as claimed): whatever the raw value of the field, the current list an
\* ADD or a REMOVE decodes from it has no empty entry and no entry that begins or
\* ends with whitespace, and the value written back has no quote character that
\* the entries written did not have.
C18_DecodedClean ==
  \A r \in Requests :
    req[r].kind \in {"ADD", "REMOVE"} =>
      /\ \A i \in 1..Len(req[r].currentFavorites) :
           LET entry == req[r].currentFavorites[i]
           IN /\ entry # <<>>
              /\ entry[1] \notin Whitespace
              /\ entry[Len(entry)] \notin Whitespace
      /\ \A i \in 1..Len(req[r].calls) :
           req[r].calls[i].op = "set" =>
             QuoteCount(req[r].calls[i].value) = QuoteCountAll(req[r].favorites)

\* C19 (as claimed): decoding is idempotent through encoding: the current list
\* a request decoded from the raw value of the field, joined as a write joins
\* it and decoded again, is the same set of handles.
C19_DecodeIdempotent ==
  \A r \in Requests :
    (req[r].kind \in {"ADD", "REMOVE"} /\ PastRead(r)) =>
      Range(ParseFavorites(Join(req[r].currentFavorites))) = Range(req[r].currentFavorites)

\* A trimmed line without its pair of quotes, when it begins and ends with the
\* same quote character; the line itself otherwise.
WithoutMatchingPair(t) ==
  IF Len(t) >= 2 /\ t[1] \in Quotes /\ t[Len(t)] = t[1]
  THEN SubSeq(t, 2, Len(t) - 1)
  ELSE t

\* The lines of a raw value, trimmed, each without its matching pair of quotes,
\* the empty ones dropped.
DecodedByPairs(value) ==
  LET lines == Split(value)
  IN FilterBoolean([i \in 1..Len(lines) |-> WithoutMatchingPair(Trim(lines[i]))])

\* C20 (as claimed): decoding strips quotes from a line only as a pair, when the
\* trimmed line begins and ends with the same quote character; a line with a
\* quote at one end, or with different quotes at its ends, is only trimmed.
C20_StripsMatchingPairOnly ==
  \A r \in Requests :
    (/\ req[r].kind \in {"ADD", "REMOVE"} /\ PastRead(r)
     /\ req[r].existingMetafield.present /\ req[r].existingMetafield.value # <<>>)
    => req[r].currentFavorites = DecodedByPairs(req[r].existingMetafield.value)

\* C21 (as claimed): the list READ-ALL returns is the list ADD and REMOVE decode
\* from the same stored value: the lines trimmed, stripped of quotes, the empty
\* ones dropped.
C21_LoaderDecodesAsHandlers ==
  \A r \in Requests :
    (req[r].kind = "READ" /\ IsDone(r) /\ req[r].resp.success) =>
      req[r].resp.favorites =
        IF req[r].existingMetafield.present /\ req[r].existingMetafield.value # <<>>
        THEN ParseFavorites(req[r].existingMetafield.value)
        ELSE <<>>

\* The operations of the store calls of request r, in the order it issued them.
StoreOps(r) ==
  LET storeCalls == CallsOf(r, {"read", "set", "delete", "verify"})
  IN [i \in 1..Len(storeCalls) |-> IF storeCalls[i].op \in {"set", "delete"}
                                   THEN "write" ELSE storeCalls[i].op]

\* C22: an ADD or a REMOVE issues its store calls in the order read, write,
\* verification read, each at most once; a request that failed issues no
\* further call; the verification read follows only a write that came back
\* HTTP OK with no top-level errors and no user errors.
C22_CallOrderNoRetry ==
  \A r \in Requests :
    req[r].kind \in {"ADD", "REMOVE"} =>
      /\ StoreOps(r) \in {<<>>, <<"read">>, <<"read", "write">>,
                          <<"read", "write", "verify">>}
      /\ req[r].pc = "write" => StoreOps(r) = <<"read">>
      /\ Len(CallsOf(r, {"verify"})) > 0 =>
           /\ req[r].writeOk
           /\ req[r].writeErrors = <<>>
           /\ req[r].writeUserErrors = <<>>
      /\ (IsDone(r) /\ ReadFailed(r)) => StoreOps(r) = <<"read">>
      /\ (~req[r].writeOk \/ req[r].writeErrors # <<>> \/ req[r].writeUserErrors # <<>>)
           => IsDone(r) /\ StoreOps(r) = <<"read", "write">>

\* C22 witness: a request whose write came back with errors has answered after
\* one read and one write.
C22_Witness ==
  \E r \in Requests :
    /\ req[r].kind \in {"ADD", "REMOVE"} /\ IsDone(r)
    /\ req[r].writeErrors # <<>> /\ req[r].writeOk
    /\ StoreOps(r) = <<"read", "write">>

\* C22 witness of the full sequence: read, write and verification read.
C22_WitnessVerified ==
  \E r \in Requests :
    /\ req[r].kind = "REMOVE" /\ IsDone(r) /\ req[r].resp.success
    /\ StoreOps(r) = <<"read", "write", "verify">>

\* C23 (as claimed): a set-mutation of a request that read an absent field or
\* a non-empty list carries a value that decodes to a non-empty list, and a
\* field the system has written is absent or decodes to a non-empty list.
C23_NeverPresentEmpty ==
  /\ \A r \in Requests :
       (/\ req[r].kind \in {"ADD", "REMOVE"}
        /\ ~req[r].existingMetafield.present \/ req[r].currentFavorites # <<>>)
       => \A i \in 1..Len(req[r].calls) :
            req[r].calls[i].op = "set" =>
              /\ req[r].calls[i].value # <<>>
              /\ ParseFavorites(req[r].calls[i].value) # <<>>
  /\ \A k \in Keys :
       (lastWriter[k] # 0 /\ store[k].present) =>
         \/ ParseFavorites(store[k].value) # <<>>
         \/ (req[lastWriter[k]].existingMetafield.present
             /\ req[lastWriter[k]].currentFavorites = <<>>)

\* C24 (as claimed): ADD loses nothing: when the store applies the write of an
\* ADD that runs alone (the step after which the request can report success),
\* every handle of the stored list before the write and every decoded incoming
\* handle is in the stored list after it.
C24_AddKeepsExisting ==
  [][\A r \in Requests :
       (req[r].kind = "ADD" /\ req[r].pc = "write" /\ req'[r].pc = "verify") =>
         LET k == <<req[r].customerId, req[r].metafieldNamespace>>
         IN (Range(StoredList(k)) \cup Range(req[r].allNewFavorites))
              \subseteq Range(StoredList(k))']_vars

\* C25 (as claimed): a failure response means the store was not changed by the
\* request: when an ADD or a REMOVE that runs alone, and whose read was answered
\* without errors, answers success false, a field the store wrote for it holds
\* what the request read.
C25_FailureLeavesStore ==
  \A r \in Requests :
    (/\ req[r].kind \in {"ADD", "REMOVE"} /\ IsDone(r) /\ ~req[r].resp.success
     /\ req[r].readErrors = <<>>)
    => \A k \in Keys : lastWriter[k] = r => store[k] = req[r].existingMetafield

\* The decoded list of a field.
ListOf(field) == IF field.present THEN ParseFavorites(field.value) ELSE <<>>

\* Request r2 is a successful REMOVE of h that read what the successful ADD r1
\* of h alone wrote to the same field, and was the last to write it.
AddThenRemove(r1, r2, h) ==
  /\ r1 # r2
  /\ req[r1].kind = "ADD" /\ IsDone(r1) /\ req[r1].resp.success
  /\ req[r2].kind = "REMOVE" /\ IsDone(r2) /\ req[r2].resp.success
  /\ req[r1].customerId = req[r2].customerId
  /\ req[r1].metafieldNamespace = req[r2].metafieldNamespace
  /\ req[r1].allNewFavorites = <<h>> /\ req[r2].productHandle = h
  /\ req[r2].existingMetafield.present
  /\ req[r2].existingMetafield.value = Join(req[r1].favorites)
  /\ lastWriter[<<req[r2].customerId, req[r2].metafieldNamespace>>] = r2

\* C26 (as claimed): ADD then REMOVE is a round trip: after a successful ADD of
\* h to a list L without h and a successful REMOVE of h on the same field, the
\* field holds the handles of L, and is absent when L was absent or empty.
C26_AddRemoveRoundTrip ==
  \A r1, r2 \in Requests : \A h \in ProductHandles :
    (AddThenRemove(r1, r2, h) /\ h \notin Range(ListOf(req[r1].storedField))) =>
      LET k == <<req[r2].customerId, req[r2].metafieldNamespace>>
          L == ListOf(req[r1].storedField)
      IN /\ Range(StoredList(k)) = Range(L)
         /\ L = <<>> => ~store[k].present

\* C27 (as claimed): a run of the app loader whose check the store answered
\* with its definitions issues the create-definition mutation exactly when no
\* definition with key "favorite_products" existed in the namespace, whatever
\* else the namespace holds, so a run that starts after the definition exists
\* issues no create; and every run that ends has returned.
C27_CreatesOnlyWhenMissing ==
  \A l \in Runs :
    /\ (run[l].pc # "idle" /\ ~run[l].checkErrors /\ run[l].existed) =>
         run[l].pc = "done" /\ ~run[l].createIssued
    /\ (run[l].pc = "create" /\ ~run[l].checkErrors) => ~run[l].existed
    /\ run[l].pc = "done" => run[l].returned

====
